---- MODULE Spec2Model ----
(***************************************************************************)
(* A model of the live file-tree viewer.                                   *)
(*                                                                         *)
(*   server  the SSE route: one shared fs watcher, the 75 ms coalescer,    *)
(*           the per-stream setup (start), cancel and snapshot pushes      *)
(*   client  FileExplorer: the bootstrap fetch, the EventSource handlers   *)
(*           and the keyboard navigation over the flattened tree           *)
(*   pure    flattenTree, findNodeByPath, findParentPath,                  *)
(*           findTypeaheadMatch as operators                               *)
(*                                                                         *)
(* Node runs every callback to completion, and the promise continuations   *)
(* (microtasks) that follow it, before the next callback: one action of    *)
(* the server is one such callback with its continuations, up to the next  *)
(* await of real I/O (readTree, ensureTreeOnDisk).                         *)
(***************************************************************************)
EXTENDS Integers, Sequences, FiniteSets, TLC

(***************************************************************************)
(* Bounds of the model.                                                    *)
(***************************************************************************)
\* streams (GET requests) that may be opened
MaxSubs == 2
\* changes made to the tree on disk
MaxDisk == 2
\* tree reads that fail
MaxFail == 1
\* errors reported by a watch handle
MaxWatchErr == 1
\* the client's clock stops here (ms)
MaxClock == 1700
\* characters the type-ahead buffer may hold
MaxBuffer == 2
\* the timed specification: its clock stops here (ms), and the changes made
\* on disk
MaxTime == 200
MaxTimedDisk == 3

(***************************************************************************)
(* Program constants.                                                      *)
(***************************************************************************)
COALESCE_MS == 75
TYPEAHEAD_RESET_MS == 800
\* the value of an empty `watcher` / `debounceTimer`
NULL == 0

Subs == 1..MaxSubs

VARIABLES
  \* ---- server (route.ts of the stream) ----
  disk,           \* version of the tree on disk: version v holds changes 1..v
  watcher,        \* module variable `watcher`: NULL or a handle id
  handles,        \* the FSWatcher handles that are open (id = the stream that opened it)
  debounceTimer,  \* module variable `debounceTimer`: NULL or the timer's deadline
  listeners,      \* streams whose callback is registered on `emitter`
  pc,             \* where each stream's start() is
  cancelled,      \* streams whose cancel() has run
  heartbeat,      \* streams whose heartbeat interval is running
  reads,          \* per stream: the readTree() calls in flight, oldest first
  pushes,         \* per stream: the snapshots enqueued on its controller, in order
  nSignals,       \* number of FILE_EVENTS emissions so far
  sigSubs,        \* per emission: the listeners it called
  initVer,        \* per stream: the disk version its initial readTree saw (-1 before)
  failed,         \* the reads that have failed: <<stream, sig>>
  nWatchErr,      \* watch errors reported
  now,            \* clock in ms (advances in the timed specification only)
  log,            \* timed specification: raw watch events and emissions, in order
  \* ---- client (FileExplorer) ----
  tree,           \* state `tree`: NoNode (null) or the root node
  loading,        \* state `loading`
  error,          \* state `error`: NoError (null) or a message
  expanded,       \* state `expanded`: a set of paths
  selectedPath,   \* state `selectedPath`: NoPath (null) or a path
  typeaheadState, \* ref `typeaheadState`: [buffer, lastInputTime]
  clock,          \* Date.now()
  bootState,      \* the bootstrap fetch: "pending" or "done"
  pushApplied,    \* a pushed snapshot has been applied to `tree`
  treeFrom,       \* what set `tree` last: "none", "bootstrap" or "push"
  lastEvent,      \* the event the component handled last
  \* ---- flattenTree taken alone ----
  fRoot,          \* argument `root`
  fExpanded,      \* argument `expanded`
  fDone,          \* the call has returned
  fOut,           \* its result
  \* ---- findTypeaheadMatch taken alone ----
  mQuery,         \* argument `query`
  mNodes,         \* argument `nodes`
  mSelected,      \* argument `selectedPath`
  mDone,          \* the call has returned
  mOut            \* its result

serverVars == <<disk, watcher, handles, debounceTimer, listeners, pc, cancelled,
                heartbeat, reads, pushes, nSignals, sigSubs, initVer, failed,
                nWatchErr>>
timeVars == <<now, log>>

clientVars == <<tree, loading, error, expanded, selectedPath, typeaheadState,
                clock, bootState, pushApplied, treeFrom, lastEvent>>
flatVars == <<fRoot, fExpanded, fDone, fOut>>
matchVars == <<mQuery, mNodes, mSelected, mDone, mOut>>

vars == <<serverVars, timeVars, clientVars, flatVars, matchVars>>

(***************************************************************************)
(* Sequence helpers.                                                       *)
(***************************************************************************)
RemoveAt(seq, i) == [j \in 1..(Len(seq) - 1) |-> IF j < i THEN seq[j] ELSE seq[j + 1]]

Last(seq) == seq[Len(seq)]

(***************************************************************************)
(* The tree functions of the client (FileExplorer).                        *)
(*                                                                         *)
(* A FileTreeNode is a record [type, name, path] with an optional field    *)
(* `children`, a sequence of nodes; a name is a sequence of characters.    *)
(***************************************************************************)
\* Array.isArray(node.children)
IsArray(node) == "children" \in DOMAIN node

\* Array.isArray(node.children) ? node.children : []
ChildrenOf(node) == IF IsArray(node) THEN node.children ELSE <<>>

RECURSIVE visit(_, _, _)
RECURSIVE visitEach(_, _, _)

\* children.forEach((child) => visit(child, depth + 1))
visitEach(children, depth, expandedSet) ==
  IF children = <<>> THEN <<>>
  ELSE visit(Head(children), depth, expandedSet)
         \o visitEach(Tail(children), depth, expandedSet)

\* visit of flattenTree: push the node, then its children when it is a folder
\* whose path is expanded
visit(node, depth, expandedSet) ==
  <<[node |-> node, depth |-> depth]>>
    \o (IF node.type = "folder" /\ node.path \in expandedSet
        THEN visitEach(ChildrenOf(node), depth + 1, expandedSet)
        ELSE <<>>)

\* A flattenTree that forgets to test the node's type.
flattenTreeAnyType(root, expandedSet) ==
  LET RECURSIVE v(_, _)
      RECURSIVE ve(_, _)
      ve(children, depth) ==
        IF children = <<>> THEN <<>>
        ELSE v(Head(children), depth) \o ve(Tail(children), depth)
      v(node, depth) ==
        <<[node |-> node, depth |-> depth]>>
          \o (IF node.path \in expandedSet
              THEN ve(ChildrenOf(node), depth + 1) ELSE <<>>)
  IN v(root, 0)

flattenTree(root, expandedSet) == visit(root, 0, expandedSet)

\* null, for a node and for a path
NoNode == [type |-> "null"]
NoPath == ""

RECURSIVE searchStack(_, _)

\* the while loop of findNodeByPath over its stack (pop takes the last)
searchStack(stack, path) ==
  IF stack = <<>> THEN NoNode
  ELSE LET current == stack[Len(stack)]
           rest == SubSeq(stack, 1, Len(stack) - 1)
       IN IF current.path = path THEN current
          ELSE IF current.type = "folder" /\ IsArray(current)
               THEN searchStack(rest \o current.children, path)
               ELSE searchStack(rest, path)

findNodeByPath(root, path) ==
  IF root = NoNode \/ path = NoPath THEN NoNode
  ELSE IF root.path = path THEN root
  ELSE searchStack(ChildrenOf(root), path)

RECURSIVE searchParent(_, _)

\* the while loop of findParentPath over its stack of [node, parentPath]
searchParent(stack, targetPath) ==
  IF stack = <<>> THEN NoPath
  ELSE LET current == stack[Len(stack)]
           rest == SubSeq(stack, 1, Len(stack) - 1)
       IN IF current.node.path = targetPath THEN current.parentPath
          ELSE IF current.node.type = "folder" /\ IsArray(current.node)
               THEN searchParent(
                      rest \o [i \in 1..Len(current.node.children) |->
                                [node |-> current.node.children[i],
                                 parentPath |-> current.node.path]],
                      targetPath)
               ELSE searchParent(rest, targetPath)

\* A findParentPath that answers with the root for every node it finds.
findParentPathRoot(root, targetPath) ==
  IF root = NoNode \/ targetPath = NoPath \/ root.path = targetPath THEN NoPath
  ELSE IF searchParent([i \in 1..Len(ChildrenOf(root)) |->
                         [node |-> root.children[i], parentPath |-> root.path]],
                       targetPath) # NoPath
       THEN root.path ELSE NoPath

findParentPath(root, targetPath) ==
  IF root = NoNode \/ targetPath = NoPath \/ root.path = targetPath THEN NoPath
  ELSE searchParent([i \in 1..Len(ChildrenOf(root)) |->
                      [node |-> root.children[i], parentPath |-> root.path]],
                    targetPath)

\* String.prototype.toLowerCase, per character
LowerChar(c) ==
  CASE c = "A" -> "a" [] c = "C" -> "c" [] c = "F" -> "f" [] c = "P" -> "p"
    [] OTHER -> c

toLowerCase(str) == [i \in 1..Len(str) |-> LowerChar(str[i])]

\* String.prototype.trim
RECURSIVE trim(_)
trim(str) ==
  IF str = <<>> THEN str
  ELSE IF Head(str) = " " THEN trim(Tail(str))
  ELSE IF str[Len(str)] = " " THEN trim(SubSeq(str, 1, Len(str) - 1))
  ELSE str

startsWith(str, prefix) ==
  Len(prefix) <= Len(str) /\ SubSeq(str, 1, Len(prefix)) = prefix

\* nodes.findIndex((item) => item.node.path === path), 0-based, -1 when absent
findIndex(nodes, path) ==
  IF \E i \in 1..Len(nodes) : nodes[i].node.path = path
  THEN (CHOOSE i \in 1..Len(nodes) :
          /\ nodes[i].node.path = path
          /\ \A j \in 1..(i - 1) : nodes[j].node.path # path) - 1
  ELSE -1

\* the for loop of findTypeaheadMatch from `offset` on
RECURSIVE typeaheadFrom(_, _, _, _)
typeaheadFrom(offset, startIndex, normalized, nodes) ==
  LET total == Len(nodes)
      index == (startIndex + offset + total) % total
      candidate == nodes[index + 1]
  IN IF offset > total THEN NoNode
     ELSE IF startsWith(toLowerCase(candidate.node.name), normalized) THEN candidate
     ELSE typeaheadFrom(offset + 1, startIndex, normalized, nodes)

\* A findTypeaheadMatch whose search starts at the selected node itself.
findTypeaheadMatchFromSelected(query, nodes, selected) ==
  LET normalized == toLowerCase(trim(query))
      startIndex == IF selected # NoPath THEN findIndex(nodes, selected) ELSE -1
  IN IF normalized = <<>> \/ Len(nodes) = 0 THEN NoNode
     ELSE typeaheadFrom(0, startIndex, normalized, nodes)

findTypeaheadMatch(query, nodes, selected) ==
  LET normalized == toLowerCase(trim(query))
      startIndex == IF selected # NoPath THEN findIndex(nodes, selected) ELSE -1
  IN IF normalized = <<>> \/ Len(nodes) = 0 THEN NoNode
     ELSE typeaheadFrom(1, startIndex, normalized, nodes)

(***************************************************************************)
(* Server                                                                  *)
(***************************************************************************)
ServerInit ==
  /\ disk = 0
  /\ watcher = NULL
  /\ handles = {}
  /\ debounceTimer = NULL
  /\ listeners = {}
  /\ pc = [s \in Subs |-> "idle"]
  /\ cancelled = [s \in Subs |-> FALSE]
  /\ heartbeat = [s \in Subs |-> FALSE]
  /\ reads = [s \in Subs |-> <<>>]
  /\ pushes = [s \in Subs |-> <<>>]
  /\ nSignals = 0
  /\ sigSubs = <<>>
  /\ initVer = [s \in Subs |-> -1]
  /\ failed = {}
  /\ nWatchErr = 0

TimeInit ==
  /\ now = 0
  /\ log = <<>>

\* readTree() called by sendSnapshot: a call in flight that has not yet
\* looked at the disk.  sig = 0 is the initial snapshot of start().
NewRead(sig) == [sig |-> sig, sampled |-> FALSE, val |-> 0]

\* A stopWatcher that drops the variable and never closes the handle.
StopWatcherNoClose(w, hs) == hs

\* stopWatcher(): the handles left open once watcher.close() has run
StopWatcherHandles(w, hs) == IF w = NULL THEN hs ELSE hs \ {w}

\* A sliding debounce: every raw event restarts the timer.
scheduleEmitSliding(timer, t) == t + COALESCE_MS

\* scheduleEmit(): the new value of debounceTimer
scheduleEmit(timer, t) == IF timer # NULL THEN timer ELSE t + COALESCE_MS

\* The rest of start() once subscribeToFileTreeChanges has a watcher:
\* emitter.on, setInterval, cleanup = ...
Registered(s) ==
  /\ listeners' = listeners \cup {s}
  /\ heartbeat' = [heartbeat EXCEPT ![s] = TRUE]
  /\ pc' = [pc EXCEPT ![s] = "live"]

\* start() from `await sendSnapshot()` returning: ensureWatcher returns at
\* once when `watcher` is set, else it awaits ensureTreeOnDisk().
AfterInitialSnapshot(s) ==
  IF watcher # NULL
  THEN Registered(s)
  ELSE /\ pc' = [pc EXCEPT ![s] = "ensuring"]
       /\ UNCHANGED <<listeners, heartbeat>>

\* GET: the stream is built and start() runs up to its first await, with the
\* initial readTree() in flight.  Streams are opened in the order of their ids.
Subscribe(s) ==
  /\ pc[s] = "idle"
  /\ \A t \in Subs : t < s => pc[t] # "idle"
  /\ pc' = [pc EXCEPT ![s] = "reading"]
  /\ reads' = [reads EXCEPT ![s] = <<NewRead(0)>>]
  /\ UNCHANGED <<disk, watcher, handles, debounceTimer, listeners, cancelled,
                 heartbeat, pushes, nSignals, sigSubs, initVer, failed, nWatchErr>>
  /\ UNCHANGED <<timeVars, clientVars, flatVars, matchVars>>

\* readTree() looks at the disk.
ReadSample(s, i) ==
  /\ i \in 1..Len(reads[s])
  /\ ~reads[s][i].sampled
  /\ reads' = [reads EXCEPT ![s][i] = [@ EXCEPT !.sampled = TRUE, !.val = disk]]
  /\ initVer' = IF reads[s][i].sig = 0 THEN [initVer EXCEPT ![s] = disk] ELSE initVer
  /\ UNCHANGED <<disk, watcher, handles, debounceTimer, listeners, pc, cancelled,
                 heartbeat, pushes, nSignals, sigSubs, failed, nWatchErr>>
  /\ UNCHANGED <<timeVars, clientVars, flatVars, matchVars>>

\* controller.enqueue(formatSse(tree)) of sendSnapshot: on a cancelled stream
\* enqueue throws and the .catch logs it.
Enqueue(s, r) ==
  IF cancelled[s]
  THEN pushes
  ELSE [pushes EXCEPT ![s] = Append(@, [sig |-> r.sig, ver |-> r.val])]

\* readTree() resolves: .then enqueues; for the initial snapshot start() goes on.
ReadResolve(s, i) ==
  /\ i \in 1..Len(reads[s])
  /\ reads[s][i].sampled
  /\ pushes' = Enqueue(s, reads[s][i])
  /\ reads' = [reads EXCEPT ![s] = RemoveAt(@, i)]
  /\ IF reads[s][i].sig = 0
     THEN AfterInitialSnapshot(s)
     ELSE UNCHANGED <<pc, listeners, heartbeat>>
  /\ UNCHANGED <<disk, watcher, handles, debounceTimer, cancelled, nSignals,
                 sigSubs, initVer, failed, nWatchErr>>
  /\ UNCHANGED <<timeVars, clientVars, flatVars, matchVars>>

\* A catch that also errors the stream's controller.
CatchClosesStream(s) == [cancelled EXCEPT ![s] = TRUE]

\* The .catch of sendSnapshot after a rejected readTree(): console.error only,
\* the stream is left as it is.
CatchSnapshotError(s) == cancelled

\* readTree() rejects: the .catch logs; for the initial snapshot start() goes on.
ReadFail(s, i) ==
  /\ i \in 1..Len(reads[s])
  /\ ~reads[s][i].sampled
  /\ Cardinality(failed) < MaxFail
  /\ failed' = failed \cup {<<s, reads[s][i].sig>>}
  /\ reads' = [reads EXCEPT ![s] = RemoveAt(@, i)]
  /\ cancelled' = CatchSnapshotError(s)
  /\ IF reads[s][i].sig = 0
     THEN AfterInitialSnapshot(s)
     ELSE UNCHANGED <<pc, listeners, heartbeat>>
  /\ UNCHANGED <<disk, watcher, handles, debounceTimer, pushes,
                 nSignals, sigSubs, initVer, nWatchErr>>
  /\ UNCHANGED <<timeVars, clientVars, flatVars, matchVars>>

\* ensureWatcher after `await ensureTreeOnDisk()`: watch() opens a handle and
\* stores it in `watcher` (whatever `watcher` holds by now); then the rest of
\* start().
EnsureDone(s) ==
  /\ pc[s] = "ensuring"
  /\ watcher' = s
  /\ handles' = handles \cup {s}
  /\ Registered(s)
  /\ UNCHANGED <<disk, debounceTimer, cancelled, reads, pushes, nSignals,
                 sigSubs, initVer, failed, nWatchErr>>
  /\ UNCHANGED <<timeVars, clientVars, flatVars, matchVars>>

\* cancel(): cleanup?.() -- clearInterval, emitter.off, stopWatcher when no
\* listener is left.  cleanup is set only once start() has finished.
Cancel(s) ==
  /\ pc[s] \in {"reading", "ensuring", "live"}
  /\ ~cancelled[s]
  /\ cancelled' = [cancelled EXCEPT ![s] = TRUE]
  /\ IF pc[s] = "live"
     THEN /\ heartbeat' = [heartbeat EXCEPT ![s] = FALSE]
          /\ listeners' = listeners \ {s}
          /\ pc' = [pc EXCEPT ![s] = "closed"]
          /\ IF listeners \ {s} = {}
             THEN /\ handles' = StopWatcherHandles(watcher, handles)
                  /\ watcher' = NULL
             ELSE UNCHANGED <<watcher, handles>>
     ELSE UNCHANGED <<heartbeat, listeners, pc, watcher, handles>>
  /\ UNCHANGED <<disk, debounceTimer, reads, pushes, nSignals, sigSubs, initVer,
                 failed, nWatchErr>>
  /\ UNCHANGED <<timeVars, clientVars, flatVars, matchVars>>

\* The tree changes on disk; every open handle reports it and its callback
\* runs scheduleEmit().
DiskChangeCore(limit) ==
  /\ disk < limit
  /\ disk' = disk + 1
  /\ debounceTimer' = IF handles = {} THEN debounceTimer
                      ELSE scheduleEmit(debounceTimer, now)
  /\ UNCHANGED <<watcher, handles, listeners, pc, cancelled, heartbeat, reads,
                 pushes, nSignals, sigSubs, initVer, failed, nWatchErr>>

DiskChange ==
  /\ DiskChangeCore(MaxDisk)
  /\ UNCHANGED <<timeVars, clientVars, flatVars, matchVars>>

\* The debounce timer's callback: debounceTimer = null; emitter.emit calls
\* every registered callback, each starting its own readTree().
DebounceFireCore ==
  /\ debounceTimer # NULL
  /\ debounceTimer' = NULL
  /\ nSignals' = nSignals + 1
  /\ sigSubs' = Append(sigSubs, listeners)
  /\ reads' = [s \in Subs |->
                 IF s \in listeners THEN Append(reads[s], NewRead(nSignals + 1))
                 ELSE reads[s]]
  /\ UNCHANGED <<disk, watcher, handles, listeners, pc, cancelled, heartbeat,
                 pushes, initVer, failed, nWatchErr>>

DebounceFire ==
  /\ DebounceFireCore
  /\ UNCHANGED <<timeVars, clientVars, flatVars, matchVars>>

\* An error handler that logs and leaves `watcher` pointing at the handle.
WatchErrorKeepsVariable(h) ==
  /\ h \in handles
  /\ nWatchErr < MaxWatchErr
  /\ nWatchErr' = nWatchErr + 1
  /\ handles' = handles \ {h}
  /\ UNCHANGED <<disk, watcher, debounceTimer, listeners, pc, cancelled, heartbeat,
                 reads, pushes, nSignals, sigSubs, initVer, failed>>
  /\ UNCHANGED <<timeVars, clientVars, flatVars, matchVars>>

\* watcher.on('error'): the runtime has closed the failing handle; the
\* handler logs and calls stopWatcher().
WatchError(h) ==
  /\ h \in handles
  /\ nWatchErr < MaxWatchErr
  /\ nWatchErr' = nWatchErr + 1
  /\ handles' = StopWatcherHandles(watcher, handles \ {h})
  /\ watcher' = NULL
  /\ UNCHANGED <<disk, debounceTimer, listeners, pc, cancelled, heartbeat, reads,
                 pushes, nSignals, sigSubs, initVer, failed>>
  /\ UNCHANGED <<timeVars, clientVars, flatVars, matchVars>>

\* The heartbeat interval's callback: a keep-alive comment is enqueued, which
\* is no part of the modelled state.
HeartbeatFire(s) ==
  /\ heartbeat[s]
  /\ UNCHANGED vars

\* flattenTree is not under test in the server and client specifications
FlatIdle ==
  /\ fRoot = [type |-> "folder", name |-> <<"r">>, path |-> "root"]
  /\ fExpanded = {}
  /\ fDone = FALSE
  /\ fOut = <<>>

\* findTypeaheadMatch taken alone is not called in the server and client
\* specifications
MatchIdle ==
  /\ mQuery = <<>>
  /\ mNodes = <<>>
  /\ mSelected = NoPath
  /\ mDone = FALSE
  /\ mOut = NoNode

(***************************************************************************)
(* Client                                                                  *)
(***************************************************************************)
File(name, path) == [type |-> "file", name |-> name, path |-> path]
Folder(name, path, kids) ==
  [type |-> "folder", name |-> name, path |-> path, children |-> kids]

\* The states of the tree on disk that the server may send, oldest first:
\*   1  root[ Ap/[ apr ], b ]
\*   2  root[ Ap/[], b, C/ ]       (apr deleted; C added, without children field)
\*   3  root[ b ]                  (Ap deleted)
Snapshots ==
  << Folder(<<"r">>, "root",
       << Folder(<<"A", "p">>, "root/Ap",
            << File(<<"a", "p", "r">>, "root/Ap/apr") >>),
          File(<<"b">>, "root/b") >>),
     Folder(<<"r">>, "root",
       << Folder(<<"A", "p">>, "root/Ap", <<>>),
          File(<<"b">>, "root/b"),
          [type |-> "folder", name |-> <<"C">>, path |-> "root/C"] >>),
     Folder(<<"r">>, "root",
       << File(<<"b">>, "root/b") >>) >>

\* event.key of the keys pressed besides the arrows and Escape
OtherKeys == {<<"a">>, <<"P">>, <<"F", "1">>}

NoError == ""

ClientInit ==
  /\ tree = NoNode
  /\ loading = TRUE
  /\ error = NoError
  /\ expanded = {"root"}
  /\ selectedPath = NoPath
  /\ typeaheadState = [buffer |-> <<>>, lastInputTime |-> 0]
  /\ clock = TYPEAHEAD_RESET_MS + 1
  /\ bootState = "pending"
  /\ pushApplied = FALSE
  /\ treeFrom = "none"
  /\ lastEvent = "none"

\* const visibleNodes = tree ? flattenTree(tree, expanded) : []
visibleNodes == IF tree = NoNode THEN <<>> ELSE flattenTree(tree, expanded)

\* const selectedNode = findNodeByPath(tree, selectedPath)
selectedNode == findNodeByPath(tree, selectedPath)

\* loadTree: the response is ok and parsed: setTree, setError(null), setLoading(false)
BootstrapOk(v) ==
  /\ lastEvent' = "bootstrap"
  /\ bootState = "pending"
  /\ bootState' = "done"
  /\ tree' = Snapshots[v]
  /\ error' = NoError
  /\ loading' = FALSE
  /\ treeFrom' = "bootstrap"
  /\ UNCHANGED <<expanded, selectedPath, typeaheadState, clock, pushApplied>>
  /\ UNCHANGED <<serverVars, timeVars, flatVars, matchVars>>

\* loadTree: the fetch fails: setError(message), setLoading(false)
BootstrapFail ==
  /\ lastEvent' = "bootstrap error"
  /\ bootState = "pending"
  /\ bootState' = "done"
  /\ error' = "Request failed"
  /\ loading' = FALSE
  /\ UNCHANGED <<tree, expanded, selectedPath, typeaheadState, clock, pushApplied,
                 treeFrom>>
  /\ UNCHANGED <<serverVars, timeVars, flatVars, matchVars>>

\* An updater that keeps the selection whatever the new tree holds.
KeepAlways(payload, previous) == previous

\* the updater passed to setSelectedPath by source.onmessage
KeepIfPresent(payload, previous) ==
  IF previous = NoPath THEN previous
  ELSE IF findNodeByPath(payload, previous) # NoNode THEN previous ELSE NoPath

\* source.onmessage with a payload that parses
PushMessage(v) ==
  /\ lastEvent' = "message"
  /\ tree' = Snapshots[v]
  /\ error' = NoError
  /\ loading' = FALSE
  /\ selectedPath' = KeepIfPresent(Snapshots[v], selectedPath)
  /\ pushApplied' = TRUE
  /\ treeFrom' = "push"
  /\ UNCHANGED <<expanded, typeaheadState, clock, bootState>>
  /\ UNCHANGED <<serverVars, timeVars, flatVars, matchVars>>

\* A catch that blanks the view when the payload does not parse.
PushUnparsableBlanks ==
  /\ lastEvent' = "unparsable message"
  /\ tree' = NoNode
  /\ selectedPath' = NoPath
  /\ UNCHANGED <<loading, error, expanded, typeaheadState, clock, bootState,
                 pushApplied, treeFrom>>
  /\ UNCHANGED <<serverVars, timeVars, flatVars, matchVars>>

\* source.onmessage with a payload JSON.parse rejects: the catch logs
PushUnparsable ==
  /\ lastEvent' = "unparsable message"
  /\ UNCHANGED <<tree, loading, error, expanded, selectedPath, typeaheadState,
                 clock, bootState, pushApplied, treeFrom>>
  /\ UNCHANGED <<serverVars, timeVars, flatVars, matchVars>>

\* source.onerror
SourceError ==
  /\ lastEvent' = "error"
  /\ error' = "Live updates disconnected"
  /\ UNCHANGED <<tree, loading, expanded, selectedPath, typeaheadState, clock,
                 bootState, pushApplied, treeFrom>>
  /\ UNCHANGED <<serverVars, timeVars, flatVars, matchVars>>

\* onNodeClick on a rendered row
Click(i) ==
  /\ lastEvent' = "click"
  /\ ~loading /\ error = NoError
  /\ i \in 1..Len(visibleNodes)
  /\ LET target == visibleNodes[i].node
     IN /\ expanded' = IF target.type = "folder"
                       THEN (IF target.path \in expanded
                             THEN expanded \ {target.path}
                             ELSE expanded \cup {target.path})
                       ELSE expanded
        /\ selectedPath' = target.path
  /\ UNCHANGED <<tree, loading, error, typeaheadState, clock, bootState,
                 pushApplied, treeFrom>>
  /\ UNCHANGED <<serverVars, timeVars, flatVars, matchVars>>

\* A moveSelection that wraps around at the ends of the list.
moveSelectionWraps(delta) ==
  LET currentIndex == IF selectedPath # NoPath
                      THEN findIndex(visibleNodes, selectedPath) ELSE -1
      total == Len(visibleNodes)
  IN IF total = 0 THEN selectedPath
     ELSE IF currentIndex = -1
     THEN visibleNodes[(IF delta > 0 THEN 0 ELSE total - 1) + 1].node.path
     ELSE visibleNodes[((currentIndex + delta + total) % total) + 1].node.path

\* moveSelection(delta): the new selectedPath
moveSelection(delta) ==
  LET currentIndex == IF selectedPath # NoPath
                      THEN findIndex(visibleNodes, selectedPath) ELSE -1
      fallbackIndex == IF delta > 0 THEN 0 ELSE Len(visibleNodes) - 1
      clamped == IF currentIndex + delta < 0 THEN 0 ELSE currentIndex + delta
      nextIndex == IF clamped > Len(visibleNodes) - 1
                   THEN Len(visibleNodes) - 1 ELSE clamped
  IN IF Len(visibleNodes) = 0 THEN selectedPath
     ELSE IF currentIndex = -1 THEN visibleNodes[fallbackIndex + 1].node.path
     ELSE IF nextIndex # currentIndex THEN visibleNodes[nextIndex + 1].node.path
     ELSE selectedPath

\* handleTreeKeyDown, case "ArrowDown"
KeyArrowDown ==
  /\ lastEvent' = "ArrowDown"
  /\ selectedPath' = moveSelection(1)
  /\ UNCHANGED <<tree, loading, error, expanded, typeaheadState, clock, bootState,
                 pushApplied, treeFrom>>
  /\ UNCHANGED <<serverVars, timeVars, flatVars, matchVars>>

\* handleTreeKeyDown, case "ArrowUp"
KeyArrowUp ==
  /\ lastEvent' = "ArrowUp"
  /\ selectedPath' = moveSelection(-1)
  /\ UNCHANGED <<tree, loading, error, expanded, typeaheadState, clock, bootState,
                 pushApplied, treeFrom>>
  /\ UNCHANGED <<serverVars, timeVars, flatVars, matchVars>>

\* handleTreeKeyDown, case "ArrowRight"
KeyArrowRight ==
  /\ lastEvent' = "ArrowRight"
  /\ IF selectedNode = NoNode
     THEN /\ selectedPath' = IF Len(visibleNodes) > 0
                             THEN visibleNodes[1].node.path ELSE selectedPath
          /\ UNCHANGED expanded
     ELSE IF selectedNode.type = "folder"
     THEN IF selectedNode.path \notin expanded
          THEN /\ expanded' = expanded \cup {selectedNode.path}
               /\ UNCHANGED selectedPath
          ELSE /\ selectedPath' = IF ChildrenOf(selectedNode) # <<>>
                                  THEN selectedNode.children[1].path
                                  ELSE selectedPath
               /\ UNCHANGED expanded
     ELSE UNCHANGED <<selectedPath, expanded>>
  /\ UNCHANGED <<tree, loading, error, typeaheadState, clock, bootState,
                 pushApplied, treeFrom>>
  /\ UNCHANGED <<serverVars, timeVars, flatVars, matchVars>>

\* handleTreeKeyDown, case "ArrowLeft"
KeyArrowLeft ==
  /\ lastEvent' = "ArrowLeft"
  /\ IF selectedNode = NoNode
     THEN UNCHANGED <<selectedPath, expanded>>
     ELSE IF selectedNode.type = "folder" /\ selectedNode.path \in expanded
     THEN /\ expanded' = expanded \ {selectedNode.path}
          /\ UNCHANGED selectedPath
     ELSE /\ selectedPath' = IF findParentPath(tree, selectedPath) # NoPath
                             THEN findParentPath(tree, selectedPath)
                             ELSE selectedPath
          /\ UNCHANGED expanded
  /\ UNCHANGED <<tree, loading, error, typeaheadState, clock, bootState,
                 pushApplied, treeFrom>>
  /\ UNCHANGED <<serverVars, timeVars, flatVars, matchVars>>

\* handleTreeKeyDown, key "Escape"
KeyEscape ==
  /\ lastEvent' = "Escape"
  /\ typeaheadState' = [buffer |-> <<>>, lastInputTime |-> 0]
  /\ UNCHANGED <<tree, loading, error, expanded, selectedPath, clock, bootState,
                 pushApplied, treeFrom>>
  /\ UNCHANGED <<serverVars, timeVars, flatVars, matchVars>>

\* A nextBuffer that already resets at the very end of the window.
nextBufferResetsAtEnd(key) ==
  LET shouldReset == clock - typeaheadState.lastInputTime >= TYPEAHEAD_RESET_MS
  IN toLowerCase(IF shouldReset THEN key ELSE typeaheadState.buffer \o key)

\* the type-ahead buffer after key at the time now
nextBuffer(key) ==
  LET shouldReset == clock - typeaheadState.lastInputTime > TYPEAHEAD_RESET_MS
  IN toLowerCase(IF shouldReset THEN key ELSE typeaheadState.buffer \o key)

\* handleTreeKeyDown, any other key: the type-ahead
KeyOther(key) ==
  /\ lastEvent' = IF Len(key) = 1 THEN "character" ELSE "named key"
  /\ Len(nextBuffer(key)) <= MaxBuffer
  /\ typeaheadState' = [buffer |-> nextBuffer(key), lastInputTime |-> clock]
  /\ LET match == findTypeaheadMatch(nextBuffer(key), visibleNodes, selectedPath)
     IN selectedPath' = IF match # NoNode THEN match.node.path ELSE selectedPath
  /\ UNCHANGED <<tree, loading, error, expanded, clock, bootState, pushApplied,
                 treeFrom>>
  /\ UNCHANGED <<serverVars, timeVars, flatVars, matchVars>>

\* steps of the client's clock: to the end of the inactivity window (800 ms
\* after a keystroke) and just past it (801 ms)
ClockSteps == {TYPEAHEAD_RESET_MS, TYPEAHEAD_RESET_MS + 1}

\* Time passes; once the inactivity window is over more time changes nothing.
ClientTick(d) ==
  /\ clock - typeaheadState.lastInputTime <= TYPEAHEAD_RESET_MS
  /\ clock + d <= MaxClock
  /\ clock' = clock + d
  /\ UNCHANGED <<tree, loading, error, expanded, selectedPath, typeaheadState,
                 bootState, pushApplied, treeFrom, lastEvent>>
  /\ UNCHANGED <<serverVars, timeVars, flatVars, matchVars>>

ClientNext ==
  \/ \E v \in 1..Len(Snapshots) : BootstrapOk(v)
  \/ BootstrapFail
  \/ \E v \in 1..Len(Snapshots) : PushMessage(v)
  \/ PushUnparsable
  \/ SourceError
  \/ \E i \in 1..Len(visibleNodes) : Click(i)
  \/ KeyArrowDown
  \/ KeyArrowUp
  \/ KeyArrowRight
  \/ KeyArrowLeft
  \/ KeyEscape
  \/ \E key \in OtherKeys : KeyOther(key)
  \/ \E d \in ClockSteps : ClientTick(d)

Init == ServerInit /\ TimeInit /\ ClientInit /\ FlatIdle /\ MatchIdle

Next ==
  \/ \E s \in Subs : Subscribe(s)
  \/ \E s \in Subs : \E i \in 1..(MaxDisk + 1) : ReadSample(s, i)
  \/ \E s \in Subs : \E i \in 1..(MaxDisk + 1) : ReadResolve(s, i)
  \/ \E s \in Subs : \E i \in 1..(MaxDisk + 1) : ReadFail(s, i)
  \/ \E s \in Subs : EnsureDone(s)
  \/ \E s \in Subs : Cancel(s)
  \/ DiskChange
  \/ DebounceFire
  \/ \E h \in Subs : WatchError(h)
  \/ \E s \in Subs : HeartbeatFire(s)

Spec == Init /\ [][Next]_vars

ClientSpec == Init /\ [][ClientNext]_vars

(***************************************************************************)
(* The timed specification: the same server with a clock.  A timer fires   *)
(* when its delay has passed; `log` keeps the raw watch events (one per    *)
(* open handle and change) and the emissions with their times.             *)
(***************************************************************************)
\* the timed specification opens one stream: the coalescer sees the raw
\* events of the one shared handle
TimedSubs == {1}

\* steps of the clock: two of them make 74, 75 or 76 ms
TickSteps == {COALESCE_MS \div 2, COALESCE_MS - (COALESCE_MS \div 2)}

RECURSIVE RawEvents(_, _)
RawEvents(n, t) ==
  IF n = 0 THEN <<>> ELSE <<[kind |-> "raw", t |-> t]>> \o RawEvents(n - 1, t)

\* Time passes, up to the deadline of a pending timer.
Tick(d) ==
  /\ debounceTimer # NULL => now < debounceTimer
  /\ now' = IF debounceTimer # NULL /\ debounceTimer < now + d
            THEN debounceTimer ELSE now + d
  /\ now' <= MaxTime
  /\ UNCHANGED <<serverVars, log, clientVars, flatVars, matchVars>>

TimedDiskChange ==
  /\ DiskChangeCore(MaxTimedDisk)
  /\ log' = log \o RawEvents(Cardinality(handles), now)
  /\ UNCHANGED <<now, clientVars, flatVars, matchVars>>

TimedDebounceFire ==
  /\ now = debounceTimer
  /\ DebounceFireCore
  /\ log' = Append(log, [kind |-> "emit", t |-> now])
  /\ UNCHANGED <<now, clientVars, flatVars, matchVars>>

TimedNext ==
  \/ \E s \in TimedSubs : Subscribe(s)
  \/ \E s \in TimedSubs : \E i \in 1..(MaxTimedDisk + 1) : ReadSample(s, i)
  \/ \E s \in TimedSubs : \E i \in 1..(MaxTimedDisk + 1) : ReadResolve(s, i)
  \/ \E s \in TimedSubs : \E i \in 1..(MaxTimedDisk + 1) : ReadFail(s, i)
  \/ \E s \in TimedSubs : EnsureDone(s)
  \/ \E s \in TimedSubs : Cancel(s)
  \/ TimedDiskChange
  \/ TimedDebounceFire
  \/ \E h \in TimedSubs : WatchError(h)
  \/ \E s \in TimedSubs : HeartbeatFire(s)
  \/ \E d \in TickSteps : Tick(d)

CoalesceSpec == Init /\ [][TimedNext]_vars

(***************************************************************************)
(* C1 -- the coalescer.                                                    *)
(***************************************************************************)
RawIdx == {i \in 1..Len(log) : log[i].kind = "raw"}
EmitIdx == {i \in 1..Len(log) : log[i].kind = "emit"}

\* the first raw event since the last emission (or since the start)
BurstFirst(i) ==
  /\ i \in RawIdx
  /\ i > 1 => log[i - 1].kind = "emit"

\* the emissions that follow burst-first f no later than the quiet period
SignalsOf(f) == {e \in EmitIdx : e > f /\ log[e].t <= log[f].t + COALESCE_MS}

\* C1: a burst of raw events that all arrive less than COALESCE_MS after its
\* first event gets exactly one signal, emitted COALESCE_MS after that first
\* event whatever follows it in the burst; a raw event that arrives more than
\* COALESCE_MS after the raw event before it starts a burst of its own, so
\* events spaced farther apart get one signal each.
C1_Coalesce ==
  /\ \A f \in RawIdx : BurstFirst(f) =>
        /\ \A e \in SignalsOf(f) : log[e].t = log[f].t + COALESCE_MS
        /\ Cardinality(SignalsOf(f)) <= 1
        /\ now > log[f].t + COALESCE_MS => Cardinality(SignalsOf(f)) = 1
        /\ \A r \in RawIdx :
              (r > f /\ log[r].t < log[f].t + COALESCE_MS)
                => \A j \in f..r : log[j].kind = "raw"
  /\ \A e \in EmitIdx :
        \E f \in RawIdx : f < e /\ BurstFirst(f) /\ SignalsOf(f) = {e}
  /\ \A r \in RawIdx :
        (r > 1 /\ \E q \in RawIdx : q < r
               /\ \A x \in RawIdx : x < r => x <= q
               /\ log[r].t > log[q].t + COALESCE_MS)
          => BurstFirst(r)

\* A burst of two raw events at different times got one signal, and a raw
\* event more than COALESCE_MS later got a signal of its own.
C1_Witness ==
  /\ Len(log) = 5
  /\ log[1].kind = "raw" /\ log[2].kind = "raw" /\ log[3].kind = "emit"
  /\ log[4].kind = "raw" /\ log[5].kind = "emit"
  /\ log[1].t < log[2].t
  /\ log[2].t < log[1].t + COALESCE_MS
  /\ log[4].t > log[2].t + COALESCE_MS
  /\ log[5].t = log[4].t + COALESCE_MS

(***************************************************************************)
(* C2 .. C7 -- the broadcaster and the shared watch.                        *)
(***************************************************************************)
\* the snapshots stream s was sent for emission g
PushesOf(s, g) == {i \in 1..Len(pushes[s]) : pushes[s][i].sig = g}

\* every readTree() started by emission g has settled
Settled(g) == \A s \in Subs : \A i \in 1..Len(reads[s]) : reads[s][i].sig # g

\* C2: an emission with k registered streams results in exactly k pushes, one
\* per stream, all carrying the same snapshot (stated for the emissions whose
\* reads all succeeded and whose streams stayed open).
C2_FanOut ==
  \A g \in 1..nSignals :
    (/\ Settled(g)
     /\ failed = {}
     /\ \A s \in sigSubs[g] : ~cancelled[s])
    => /\ \A s \in sigSubs[g] : Cardinality(PushesOf(s, g)) = 1
       /\ \A s \in Subs \ sigSubs[g] : PushesOf(s, g) = {}
       /\ \A s, t \in sigSubs[g] :
            \A i \in PushesOf(s, g) : \A j \in PushesOf(t, g) :
              pushes[s][i].ver = pushes[t][j].ver

\* C3: once every stream that was opened has been cancelled and its start()
\* has finished, no callback is registered, no heartbeat runs and the watch
\* is released (stated for the runs without a failed read or a watch error).
C3_CancelReleases ==
  (/\ failed = {} /\ nWatchErr = 0
   /\ \E s \in Subs : pc[s] # "idle"
   /\ \A s \in Subs : pc[s] # "idle" => (cancelled[s] /\ pc[s] \in {"live", "closed"}))
  => /\ listeners = {}
     /\ \A s \in Subs : ~heartbeat[s]
     /\ watcher = NULL
     /\ handles = {}

\* a stream's cleanup ran in this step
Unsubscribes(s) == pc[s] = "live" /\ pc'[s] = "closed"

\* a stream's start() finished in this step
FinishesStart(s) == pc[s] \in {"reading", "ensuring"} /\ pc'[s] = "live"

\* a stream's initial readTree() resolved in this step
InitialResolves(s) ==
  /\ pc[s] = "reading" /\ pc'[s] # "reading"
  /\ failed' = failed

\* C4: an unsubscribe that leaves no registered stream closes the handle held
\* in `watcher` and empties the variable; one that leaves another stream
\* registered leaves the watch as it is; a stream that finishes its start()
\* has an open watch, opened anew when `watcher` was empty; and its initial
\* snapshot, read after it was opened, is the first thing pushed to it.
C4_Teardown ==
  [][\A s \in Subs :
       /\ Unsubscribes(s) =>
            IF listeners' = {}
            THEN watcher' = NULL /\ watcher \notin handles'
            ELSE watcher' = watcher /\ handles' = handles
       /\ FinishesStart(s) =>
            /\ watcher' # NULL /\ watcher' \in handles'
            /\ watcher = NULL => watcher' \notin handles
       /\ (InitialResolves(s) /\ ~cancelled[s]) =>
            pushes'[s] = <<[sig |-> 0, ver |-> initVer[s]]>>
    ]_vars

\* The first stream has unsubscribed, which closed its handle; the second,
\* opened after that, has its own handle and its initial snapshot.
C4_Witness ==
  /\ pc[1] = "closed" /\ pc[2] = "live"
  /\ handles = {2} /\ watcher = 2
  /\ initVer[2] > initVer[1]
  /\ Len(pushes[2]) = 1 /\ pushes[2][1].ver = disk

\* C5: at most one watch handle is open, and it is the one `watcher` holds
\* (stated for the runs without a failed read or a watch error).
C5_OneHandle ==
  (failed = {} /\ nWatchErr = 0)
  => /\ Cardinality(handles) <= 1
     /\ \A h \in handles : h = watcher

\* C6: a stream that stays open is sent every change made after its initial
\* read: when nothing is pending any more (no timer, no read of its own in
\* flight), no read has failed and no watch error occurred, it has been sent
\* a snapshot of the current tree.
C6_NoMissedChange ==
  \A s \in Subs :
    (/\ pc[s] = "live" /\ ~cancelled[s]
     /\ initVer[s] >= 0 /\ disk > initVer[s]
     /\ failed = {} /\ nWatchErr = 0
     /\ debounceTimer = NULL /\ reads[s] = <<>>)
    => \E i \in 1..Len(pushes[s]) : pushes[s][i].ver = disk

\* a readTree() of stream s was rejected in this step
ReadFails(s) == \E g \in 0..nSignals : <<s, g>> \in failed' \ failed

\* a readTree() of stream s resolved in this step
ReadResolves(s) == Len(reads'[s]) < Len(reads[s]) /\ failed' = failed

\* C7: a failed read skips one push and nothing else: the stream stays
\* registered and open, its heartbeat runs on, its other reads and the shared
\* watch and timer are untouched, and a failed initial read does not stop
\* start(); afterwards every emission still starts a read for every
\* registered stream, and a read that succeeds is pushed.
C7_FailedReadSkipsOnePush ==
  [][\A s \in Subs :
       /\ ReadFails(s) =>
            /\ pushes' = pushes
            /\ cancelled' = cancelled
            /\ Len(reads'[s]) = Len(reads[s]) - 1
            /\ \A t \in Subs \ {s} : reads'[t] = reads[t]
            /\ listeners \subseteq listeners'
            /\ \A t \in Subs : heartbeat[t] => heartbeat'[t]
            /\ <<watcher, handles, debounceTimer, disk>>' = <<watcher, handles, debounceTimer, disk>>
            /\ pc[s] = "reading" => pc'[s] \in {"ensuring", "live"}
            /\ pc[s] # "reading" => pc' = pc
       /\ (nSignals' = nSignals + 1 /\ s \in listeners) =>
            /\ Len(reads'[s]) = Len(reads[s]) + 1
            /\ Last(reads'[s]).sig = nSignals'
       /\ (ReadResolves(s) /\ ~cancelled[s]) =>
            Len(pushes'[s]) = Len(pushes[s]) + 1
    ]_vars

\* A stream whose read for one emission failed is still registered, open and
\* kept alive, and has been pushed the snapshot of a later emission.
C7_Witness ==
  \E s \in Subs : \E g \in 1..nSignals :
    /\ <<s, g>> \in failed
    /\ s \in listeners /\ heartbeat[s] /\ ~cancelled[s]
    /\ \E i \in 1..Len(pushes[s]) : pushes[s][i].sig > g

(***************************************************************************)
(* flattenTree taken alone: the call on every tree of a bounded shape      *)
(* (well-formed or not) and every expansion set over its paths.            *)
(***************************************************************************)
\* the path of the node at a position (the child indices from the root)
RECURSIVE PathAt(_)
PathAt(pos) ==
  IF pos = <<>> THEN "root"
  ELSE PathAt(SubSeq(pos, 1, Len(pos) - 1)) \o "/" \o ToString(pos[Len(pos)])

NodeTypes == {"file", "folder"}

\* the trees tried have at most this many nodes
MaxNodes == 4

RECURSIVE TreesAt(_, _)
RECURSIVE Forests(_, _, _)

\* the sequences of children, from child k on, of the node at pos that hold n
\* nodes in all
Forests(pos, k, n) ==
  IF n = 0 THEN {<<>>}
  ELSE UNION {{<<t>> \o f : t \in TreesAt(Append(pos, k), m),
                            f \in Forests(pos, k + 1, n - m)} : m \in 1..n}

\* the trees of n nodes rooted at pos: either type at every node, and the
\* children field missing or empty at a node without children
TreesAt(pos, n) ==
  LET bare == {[type |-> t, name |-> <<"n">>, path |-> PathAt(pos)] : t \in NodeTypes}
      kids == Forests(pos, 1, n - 1)
  IN (IF n = 1 THEN bare ELSE {})
       \cup {[type |-> b.type, name |-> b.name, path |-> b.path, children |-> ks]
               : b \in bare, ks \in kids}

RECURSIVE PathsOf(_)
PathsOf(node) ==
  {node.path} \cup UNION {PathsOf(node.children[i]) : i \in 1..Len(ChildrenOf(node))}

FlatInit ==
  /\ fRoot \in UNION {TreesAt(<<>>, n) : n \in 1..MaxNodes}
  /\ fExpanded \in SUBSET PathsOf(fRoot)
  /\ fDone = FALSE
  /\ fOut = <<>>

FlattenInit == ServerInit /\ TimeInit /\ ClientInit /\ FlatInit /\ MatchIdle

\* const visibleNodes = flattenTree(tree, expanded)
CallFlatten ==
  /\ ~fDone
  /\ fOut' = flattenTree(fRoot, fExpanded)
  /\ fDone' = TRUE
  /\ UNCHANGED <<fRoot, fExpanded, serverVars, timeVars, clientVars, matchVars>>

FlattenSpec == FlattenInit /\ [][CallFlatten]_vars

(***************************************************************************)
(* C10 -- the projection.                                                  *)
(***************************************************************************)
RECURSIVE NodeAt(_, _)
NodeAt(node, pos) ==
  IF pos = <<>> THEN node ELSE NodeAt(node.children[Head(pos)], Tail(pos))

\* the positions of all nodes of a tree (a missing children field is empty)
RECURSIVE Positions(_)
Positions(node) ==
  {<<>>} \cup UNION {{<<i>> \o p : p \in Positions(node.children[i])}
                       : i \in 1..Len(ChildrenOf(node))}

\* the proper ancestors of a position
Ancestors(pos) == {SubSeq(pos, 1, k) : k \in 0..(Len(pos) - 1)}

\* every proper ancestor is a folder whose path is in the expansion set
Shown(root, expandedSet, pos) ==
  \A q \in Ancestors(pos) :
    NodeAt(root, q).type = "folder" /\ NodeAt(root, q).path \in expandedSet

\* p comes before q in depth-first pre-order with children in child order
Before(p, q) ==
  \/ Len(p) < Len(q) /\ SubSeq(q, 1, Len(p)) = p
  \/ \E k \in 1..Len(p) :
       /\ k <= Len(q)
       /\ SubSeq(p, 1, k - 1) = SubSeq(q, 1, k - 1)
       /\ p[k] < q[k]

\* the list the claim describes
Projection(root, expandedSet) ==
  LET V == {p \in Positions(root) : Shown(root, expandedSet, p)}
      at(i) == CHOOSE p \in V : Cardinality({q \in V : Before(q, p)}) = i - 1
  IN [i \in 1..Cardinality(V) |-> [node |-> NodeAt(root, at(i)), depth |-> Len(at(i))]]

\* C10: flattenTree returns the depth-first pre-order list of the nodes all of
\* whose proper ancestors are folders with their path in the expansion set,
\* each at the depth of its position (the root first at depth 0, a child after
\* its parent at the parent's depth + 1, in child order); the children of a
\* file or of a collapsed folder are absent and a missing children field is
\* an empty one.
C10_Projection ==
  fDone =>
    /\ fOut = Projection(fRoot, fExpanded)
    /\ fOut[1] = [node |-> fRoot, depth |-> 0]
    /\ \A i \in 1..Len(fOut) :
         \A k \in 1..Len(ChildrenOf(fOut[i].node)) :
           LET child == [node |-> ChildrenOf(fOut[i].node)[k], depth |-> fOut[i].depth + 1]
               open == fOut[i].node.type = "folder" /\ fOut[i].node.path \in fExpanded
           IN open => \E j \in (i + 1)..Len(fOut) : fOut[j] = child

\* The call returned for a tree with an expanded folder whose child is
\* listed, and an "expanded" file and a collapsed folder whose children are not.
C10_Witness ==
  /\ fDone
  /\ fRoot.type = "folder" /\ fRoot.path \in fExpanded
  /\ Len(ChildrenOf(fRoot)) = 2
  /\ \E i, j \in 1..2 :
       /\ fRoot.children[i].type = "file" /\ fRoot.children[i].path \in fExpanded
       /\ Len(ChildrenOf(fRoot.children[i])) = 1
       /\ fRoot.children[j].type = "folder" /\ ~IsArray(fRoot.children[j])
  /\ Len(fOut) = 3
  /\ fOut[3].depth = 1

(***************************************************************************)
(* C8, C9 -- the client's tree and selection.                               *)
(***************************************************************************)
\* C8: whatever replaced the tree last, the selection is empty or the path of
\* a node of the current tree.
C8_SelectionResolves ==
  selectedPath = NoPath \/ findNodeByPath(tree, selectedPath) # NoNode

\* C9: once a pushed snapshot has been applied, the tree shown is a pushed
\* one: a bootstrap response that arrives later does not replace it.
C9_BootstrapOnlyBeforePush ==
  pushApplied => treeFrom = "push"

(***************************************************************************)
(* Navigation by keys.                                                     *)
(***************************************************************************)
\* the positions of the visible sequence that hold the selected path
SelectedAt == {i \in 1..Len(visibleNodes) : visibleNodes[i].node.path = selectedPath}

\* the position a move by delta (+1 down, -1 up) is to select
MoveTarget(delta) ==
  LET n == Len(visibleNodes)
  IN IF SelectedAt = {} THEN (IF delta > 0 THEN 1 ELSE n)
     ELSE LET i == CHOOSE j \in SelectedAt : TRUE
          IN IF delta > 0 THEN (IF i = n THEN n ELSE i + 1)
             ELSE (IF i = 1 THEN 1 ELSE i - 1)

\* C11: on a non-empty visible sequence Move-down selects the first node and
\* Move-up the last one when nothing in the sequence is selected; otherwise
\* the node one position after (before) the selected one, staying on the last
\* (first) node without wraparound; a move never changes the expansion set.
C11_Move ==
  [][ /\ (KeyArrowDown /\ Len(visibleNodes) > 0)
          => /\ selectedPath' = visibleNodes[MoveTarget(1)].node.path
             /\ expanded' = expanded
      /\ (KeyArrowUp /\ Len(visibleNodes) > 0)
          => /\ selectedPath' = visibleNodes[MoveTarget(-1)].node.path
             /\ expanded' = expanded ]_vars

\* Move-down has acted and the selection is on the last of three or more
\* visible nodes
C11_Witness ==
  /\ lastEvent = "ArrowDown"
  /\ Len(visibleNodes) >= 3
  /\ selectedPath = visibleNodes[Len(visibleNodes)].node.path

\* the positions of the current tree that hold the selected path
SelectedPos ==
  IF tree = NoNode THEN {}
  ELSE {p \in Positions(tree) : NodeAt(tree, p).path = selectedPath}

\* the selected node is an expanded folder
SelectedOpen(p) ==
  NodeAt(tree, p).type = "folder" /\ NodeAt(tree, p).path \in expanded

\* C12: Expand on a selected collapsed folder F with a child adds F to the
\* expansion set and keeps the selection; Expand on F expanded selects its
\* first child X and keeps the expansion set; Collapse on a file or collapsed
\* folder below the root selects its parent in the current tree; Collapse on
\* an expanded folder removes it from the expansion set and keeps the
\* selection; Collapse on the collapsed root or with no selection changes
\* nothing.
C12_ExpandCollapse ==
  [][ /\ \A p \in SelectedPos :
           LET F == NodeAt(tree, p)
           IN /\ (KeyArrowRight /\ F.type = "folder" /\ ChildrenOf(F) # <<>>)
                   => IF F.path \in expanded
                      THEN /\ selectedPath' = F.children[1].path
                           /\ expanded' = expanded
                      ELSE /\ expanded' = expanded \cup {F.path}
                           /\ selectedPath' = selectedPath
              /\ (KeyArrowLeft /\ SelectedOpen(p))
                   => /\ expanded' = expanded \ {F.path}
                      /\ selectedPath' = selectedPath
              /\ (KeyArrowLeft /\ ~SelectedOpen(p) /\ p # <<>>)
                   => /\ selectedPath' = NodeAt(tree, SubSeq(p, 1, Len(p) - 1)).path
                      /\ expanded' = expanded
              /\ (KeyArrowLeft /\ ~SelectedOpen(p) /\ p = <<>>)
                   => UNCHANGED <<tree, expanded, selectedPath>>
      /\ (KeyArrowLeft /\ selectedPath = NoPath)
           => UNCHANGED <<tree, expanded, selectedPath>> ]_vars

\* Collapse has acted and left the selection on a collapsed folder that has
\* a child, below an expanded root
C12_Witness ==
  /\ lastEvent = "ArrowLeft"
  /\ \E p \in SelectedPos :
       /\ p # <<>>
       /\ NodeAt(tree, p).type = "folder"
       /\ ChildrenOf(NodeAt(tree, p)) # <<>>
       /\ selectedPath \notin expanded
       /\ "root" \in expanded

(***************************************************************************)
(* findTypeaheadMatch taken alone: every query, visible sequence and       *)
(* selection within the bounds.                                            *)
(***************************************************************************)
\* characters of a query
MaxQuery == 2
\* nodes of a visible sequence
MaxMatchNodes == 3

QueryChars == {"a", "P", " "}
NodeNames == {<<"A", "p">>, <<"a", "p", "r">>, <<"b">>}

RECURSIVE SeqsUpTo(_, _)
SeqsUpTo(S, n) ==
  IF n = 0 THEN {<<>>}
  ELSE SeqsUpTo(S, n - 1) \cup {Append(q, c) : q \in {r \in SeqsUpTo(S, n - 1) : Len(r) = n - 1}, c \in S}

\* the visible sequence with the given names, each node with its own path
NodesNamed(names) ==
  [i \in 1..Len(names) |->
     [node |-> File(names[i], PathAt(<<i>>)), depth |-> 1]]

MatchInit ==
  /\ mQuery \in SeqsUpTo(QueryChars, MaxQuery)
  /\ mNodes \in {NodesNamed(names) : names \in SeqsUpTo(NodeNames, MaxMatchNodes)}
  /\ mSelected \in {NoPath, "root/gone"} \cup {PathAt(<<i>>) : i \in 1..MaxMatchNodes}
  /\ mDone = FALSE
  /\ mOut = NoNode

TypeaheadInit == ServerInit /\ TimeInit /\ ClientInit /\ FlatIdle /\ MatchInit

\* const match = findTypeaheadMatch(nextBuffer, visibleNodes, selectedPath)
CallMatch ==
  /\ ~mDone
  /\ mOut' = findTypeaheadMatch(mQuery, mNodes, mSelected)
  /\ mDone' = TRUE
  /\ UNCHANGED <<mQuery, mNodes, mSelected, serverVars, timeVars, clientVars, flatVars>>

TypeaheadSpec == TypeaheadInit /\ [][CallMatch]_vars

\* 1-based position of the selection in the sequence, 0 when it is not there
SelectedIndex ==
  IF \E i \in 1..Len(mNodes) : mNodes[i].node.path = mSelected
  THEN CHOOSE i \in 1..Len(mNodes) : mNodes[i].node.path = mSelected
  ELSE 0

\* the k-th position of the circular order that starts after the selection
\* and ends at it
Circular(k) == ((SelectedIndex + k - 1) % Len(mNodes)) + 1

\* the first node in circular order whose name starts with q ignoring case
FirstMatch(q) ==
  LET hits == {k \in 1..Len(mNodes) :
                 startsWith(toLowerCase(mNodes[Circular(k)].node.name), toLowerCase(q))}
  IN IF hits = {} THEN NoNode
     ELSE mNodes[Circular(CHOOSE k \in hits : \A j \in hits : k <= j)]

\* C13 as stated: for every non-empty query the result is the first node in
\* circular order after the selection whose name starts with the query
\* ignoring case, and no node when there is none.
C13_AsStated ==
  (mDone /\ mQuery # <<>>) => mOut = FirstMatch(mQuery)

\* C13: for every query the result is the first node, in circular order
\* starting after the selection (at the first node when nothing in the
\* sequence is selected) and ending at the selection, whose name starts,
\* ignoring case, with the query stripped of leading and trailing blanks; it
\* is no node when the stripped query is empty, when nothing matches or when
\* the sequence is empty.
C13_TrimmedMatch ==
  mDone => mOut = IF trim(mQuery) = <<>> THEN NoNode ELSE FirstMatch(trim(mQuery))

\* The call returned the selected node itself, the only match, for a query
\* with a trailing blank, searching past the end of the sequence.
C13_Witness ==
  /\ mDone
  /\ mQuery = <<"a", " ">>
  /\ Len(mNodes) = 3
  /\ mSelected = PathAt(<<2>>)
  /\ mOut = mNodes[2]
  /\ \A i \in {1, 3} : mNodes[i].node.name = <<"b">>

(***************************************************************************)
(* The type-ahead buffer.                                                  *)
(***************************************************************************)
CharacterKeys == {key \in OtherKeys : Len(key) = 1}
NamedKeys == {key \in OtherKeys : Len(key) > 1}

\* C14: a character key makes the buffer (old buffer + key) in lower case
\* when it comes within 800 ms of the previous type-ahead keystroke, and the
\* key alone in lower case otherwise; the selection moves to the match of the
\* new buffer when there is one and stays otherwise; Escape empties the
\* buffer in every state, and the character key that follows Escape makes
\* the buffer that key alone, whatever the time between them.
C14_Buffer ==
  [][ /\ \A key \in CharacterKeys :
           KeyOther(key) =>
             LET within == clock - typeaheadState.lastInputTime <= TYPEAHEAD_RESET_MS
                 new == IF within THEN toLowerCase(typeaheadState.buffer \o key)
                        ELSE toLowerCase(key)
                 match == findTypeaheadMatch(new, visibleNodes, selectedPath)
             IN /\ typeaheadState'.buffer = new
                /\ selectedPath' = IF match = NoNode THEN selectedPath
                                   ELSE match.node.path
                /\ lastEvent = "Escape" => typeaheadState'.buffer = toLowerCase(key)
      /\ KeyEscape => typeaheadState'.buffer = <<>> ]_vars

\* A second character key has acted at the end of the window: the buffer is
\* "ap" and the selection moved to the node it matches.
C14_Witness ==
  /\ lastEvent = "character"
  /\ typeaheadState.buffer = <<"a", "p">>
  /\ typeaheadState.lastInputTime = clock
  /\ clock = (TYPEAHEAD_RESET_MS + 1) + TYPEAHEAD_RESET_MS
  /\ selectedPath = "root/Ap/apr"

(***************************************************************************)
(* Watch errors, duplicates and the order of pushes.                       *)
(***************************************************************************)
\* C15: an error reported by the handle held in `watcher` closes that handle
\* and empties the variable, and ends no stream: registrations, heartbeats
\* and channels stay as they are.  After an error, a stream that finishes
\* its start() with `watcher` empty opens a new handle; and while a handle is
\* open again a change arms the timer, an emission starts a read for every
\* registered stream, those registered before the error included, and a
\* read that resolves on an open stream is pushed.
C15_WatchError ==
  [][ /\ \A h \in Subs :
           (WatchError(h) /\ h = watcher)
           => /\ h \notin handles' /\ watcher' = NULL
              /\ <<listeners, heartbeat, cancelled, pc, pushes, reads>>'
                   = <<listeners, heartbeat, cancelled, pc, pushes, reads>>
      /\ nWatchErr > 0 =>
           /\ \A s \in Subs :
                (FinishesStart(s) /\ watcher = NULL)
                => watcher' \in handles' \ handles
           /\ (handles # {} /\ disk' # disk) => debounceTimer' # NULL
           /\ nSignals' = nSignals + 1 =>
                \A s \in listeners :
                  /\ Len(reads'[s]) = Len(reads[s]) + 1
                  /\ Last(reads'[s]).sig = nSignals'
           /\ \A s \in Subs :
                (ReadResolves(s) /\ ~cancelled[s])
                => Len(pushes'[s]) = Len(pushes[s]) + 1 ]_vars

\* The first stream's handle failed; the second stream opened a new one, and
\* the first stream, registered before the error, has been pushed a change
\* made after the second stream's initial read, by an emission that called
\* both.
C15_Witness ==
  /\ nWatchErr = 1
  /\ pc[1] = "live" /\ pc[2] = "live"
  /\ ~cancelled[1] /\ ~cancelled[2]
  /\ handles = {2} /\ watcher = 2
  /\ initVer[2] >= 0
  /\ \E i \in 1..Len(pushes[1]) :
       /\ pushes[1][i].sig > 0
       /\ sigSubs[pushes[1][i].sig] = {1, 2}
       /\ pushes[1][i].ver > initVer[2]

\* C16: a stream is sent no change-triggered push for raw events that all
\* happened before the read of its initial snapshot: every push of an
\* emission carries a tree newer than the one its initial read saw (stated
\* for the runs without a failed read or a watch error).
C16_NoDuplicatePush ==
  (failed = {} /\ nWatchErr = 0)
  => \A s \in Subs :
       \A i \in 1..Len(pushes[s]) :
         pushes[s][i].sig > 0 => pushes[s][i].ver > initVer[s]

\* C19: on every stream the snapshots are enqueued in the order of the disk
\* states they were read from (stated for the runs without a failed read or
\* a watch error).
C19_PushOrder ==
  (failed = {} /\ nWatchErr = 0)
  => \A s \in Subs :
       \A i, j \in 1..Len(pushes[s]) :
         i < j => pushes[s][i].ver <= pushes[s][j].ver

(***************************************************************************)
(* What the events of the push channel leave alone.                        *)
(***************************************************************************)
\* the paths of the expansion set that name no node of the current tree
InertPaths ==
  IF tree = NoNode THEN expanded
  ELSE {q \in expanded : q \notin {NodeAt(tree, p).path : p \in Positions(tree)}}

\* C17: applying a pushed snapshot leaves the expansion set as it is, and
\* with paths in it that name no node of the new tree the visible sequence
\* is still the projection of the tree; a message that does not parse
\* changes none of tree, expansion set and selection; a disconnect changes
\* none of them either and only sets the reconnecting indicator.
C17_Frame ==
  [][ /\ \A v \in 1..Len(Snapshots) :
           PushMessage(v)
           => /\ expanded' = expanded
              /\ visibleNodes' = Projection(Snapshots[v], expanded)
      /\ PushUnparsable
           => UNCHANGED <<tree, expanded, selectedPath, loading, error>>
      /\ SourceError
           => /\ UNCHANGED <<tree, expanded, selectedPath, loading, typeaheadState>>
              /\ error' # NoError ]_vars

\* A snapshot was pushed that no longer holds an expanded folder: its path
\* is still in the expansion set.
C17_Witness ==
  /\ lastEvent = "message"
  /\ tree = Snapshots[3]
  /\ "root/Ap" \in InertPaths

(***************************************************************************)
(* The selection is a visible node.                                        *)
(***************************************************************************)
\* the selection is empty or the path of a node of the visible sequence
SelectionVisible ==
  \/ selectedPath = NoPath
  \/ \E i \in 1..Len(visibleNodes) : visibleNodes[i].node.path = selectedPath

\* the tree shown was set by the inputs the invariant is about: pushed
\* snapshots, or the bootstrap response before any push
SetByPushes == ~pushApplied \/ treeFrom = "push"

\* C18: after every sequence of moves, expands, collapses, clicks, character
\* keys and Escape interleaved with pushed snapshots, the selection is empty
\* or the path of a node of the current visible sequence, every proper
\* ancestor of which is an expanded folder.
C18_SelectionVisible ==
  SetByPushes =>
    /\ SelectionVisible
    /\ \A p \in SelectedPos : Shown(tree, expanded, p)

\* A push has replaced the tree and kept the selection on a node two levels
\* down, which is still visible.
C18_Witness ==
  /\ lastEvent = "message"
  /\ pushApplied /\ treeFrom = "push"
  /\ \E p \in SelectedPos : Len(p) = 2
  /\ SelectionVisible

\* C20: a key that is neither a navigation key nor a single character leaves
\* the type-ahead buffer, the selection and the expansion set unchanged.
C20_NamedKeyIgnored ==
  [][ \A key \in NamedKeys :
        KeyOther(key)
        => /\ typeaheadState'.buffer = typeaheadState.buffer
           /\ selectedPath' = selectedPath
           /\ expanded' = expanded ]_vars

====
